---- MODULE Spec2Model ----
(***************************************************************************)
(* Model of nomad_ubik_plugin/schema_packages/XRFschema.py:                *)
(* ELNXRayFluorescence.normalize, get_read_function and write_xrf_data,    *)
(* and XRayFluorescence.normalize, acting on one ELNXRayFluorescence       *)
(* record.                                                                 *)
(*                                                                         *)
(* Encoding of Python values:                                              *)
(*   - an optional value is a sequence of length <= 1: <<>> is None/unset  *)
(*     and <<v>> is the value v;                                           *)
(*   - a dict with string keys whose values are read with .get is a        *)
(*     function whose DOMAIN is the set of keys present;                   *)
(*   - a dict that is iterated with .items() is the sequence of its        *)
(*     [k, v] pairs in insertion order, keys pairwise distinct;            *)
(*   - a str that is inspected (data_file) is the sequence of its          *)
(*     characters; floats are written as integers (0.8 as 8).              *)
(***************************************************************************)
EXTENDS Integers, Sequences, FiniteSets, TLC

VARIABLES
    data_file,        \* self.data_file: <<>> or <<file name>>
    results,          \* self.results: sequence of XRFResult
    samples,          \* self.samples: sequence of CompositeSystemReference
    xrf_settings,     \* self.xrf_settings: <<>> or <<XRFSettings>>
    origin,           \* history: data_file of the call that filled self.results
    archive,          \* archive.results / archive.results.properties are set
    pc,               \* position inside normalize, "idle" between calls
    logger,           \* the logger argument of the call is not None
    fileHeld,         \* the raw file context manager is entered
    xrf_dict,         \* value returned by the read function
    idx,              \* position of the loop over xrf_dict.values()
    list_of_results,  \* local of write_xrf_data
    list_of_samples,  \* local of write_xrf_data
    exception,        \* <<>> or <<exception leaving normalize>>
    raisedByReader,   \* history: <<>> or <<exception the read function raised>>
    log,              \* history: events of the current call, in order
    pre,              \* history: results, samples, xrf_settings at call start
    outcome           \* history: branch of normalize taken by the current call

vars == <<data_file, results, samples, xrf_settings, origin, archive, pc,
          logger, fileHeld, xrf_dict, idx, list_of_results, list_of_samples,
          exception, raisedByReader, log, pre, outcome>>

\* number of measurement entries a raw mapping holds at most
MaxEntries == 2

Range(s) == {s[i] : i \in 1..Len(s)}

Count(s, e) == Cardinality({i \in 1..Len(s) : s[i] = e})

\* dict.get(key): <<>> for a missing key
Get(d, key) == IF key \in DOMAIN d THEN <<d[key]>> ELSE <<>>

Pair(key, val) == [k |-> key, v |-> val]

UniqueKeys(items) == \A i, j \in 1..Len(items) : items[i].k = items[j].k => i = j

\* all insertion-ordered dicts with keys from K and values from V
OrderedDicts(K, V) ==
    UNION {{s \in [1..n -> {Pair(a, b) : a \in K, b \in V}] : UniqueKeys(s)} :
           n \in 0..Cardinality(K)}

(***************************************************************************)
(* File names                                                              *)
(***************************************************************************)
RunTxt == <<"r", "u", "n", ".", "t", "x", "t">>
OldTxt == <<"o", "l", "d", ".", "t", "x", "t">>
RunCsv == <<"r", "u", "n", ".", "c", "s", "v">>
Txt == <<"t", "x", "t">>

FileNames == {RunTxt, OldTxt, RunCsv, Txt}

TxtSuffix == <<".", "t", "x", "t">>

\* str.endswith
EndsWith(s, suffix) ==
    /\ Len(s) >= Len(suffix)
    /\ SubSeq(s, Len(s) - Len(suffix) + 1, Len(s)) = suffix

(***************************************************************************)
(* Raw mappings a read function may return                                 *)
(***************************************************************************)
AttributeDicts ==
    { <<>>,
      [mass_fraction |-> 8, line |-> "Ka1"],
      [mass_fraction |-> 8, atomic_fraction |-> 7, line |-> "Kb1",
       intensity_peak |-> 120, intensity_background |-> 11,
       intensity_background_2 |-> 12] }

ElementDicts == OrderedDicts({"Fe", "Cu"}, AttributeDicts)

LayerContents ==
    {t @@ e : t \in {<<>>, [thickness |-> 50]},
              e \in {<<>>} \cup {[elements |-> d] : d \in ElementDicts}}

LayerDicts == OrderedDicts({"L1", "L2"}, LayerContents)

CoatingLayers == <<Pair("L1", [thickness |-> 50,
                                elements |-> <<Pair("Fe", [mass_fraction |-> 8, line |-> "Ka1"])>>])>>

Headers ==
    {a @@ s : a \in {<<>>, [application |-> "coating check"],
                     [application |-> "alloy", date |-> "2024-01-01"]},
              s \in {<<>>, [sample_name |-> ""], [sample_name |-> "S1"],
                     [sample_name |-> "S2"]}}

\* entries that vary the header fields, with and without 'layers'
HeaderEntries ==
    {h @@ [layers |-> CoatingLayers] : h \in Headers}
        \cup {[application |-> "coating check", sample_name |-> "S1"]}

\* entries that vary the layers
LayerEntries ==
    {[application |-> "coating check", sample_name |-> "S1", layers |-> l] :
        l \in LayerDicts}

NonEmptySeqs(S, n) == UNION {[1..m -> S] : m \in 1..n}

Dict(items) == [kind |-> "dict", items |-> items]

NoneValue == [kind |-> "none", items |-> <<>>]

RawMappings ==
    {Dict(s) : s \in NonEmptySeqs(HeaderEntries, MaxEntries)}
        \cup {Dict(<<e>>) : e \in LayerEntries}

SmallEntries ==
    { [application |-> "coating check", sample_name |-> "S1", layers |-> CoatingLayers],
      [application |-> "alloy", date |-> "2024-01-01", layers |-> <<>>],
      [sample_name |-> "S2", layers |-> CoatingLayers],
      [application |-> "coating check", sample_name |-> "S1"] }

\* what read_function(file.name, logger) returns in the orchestration runs
ReaderOutputs ==
    {NoneValue, Dict(<<>>)}
        \cup {Dict(s) : s \in NonEmptySeqs(SmallEntries, MaxEntries)}

ReaderErrors == {"ValueError", "OSError"}

(***************************************************************************)
(* Sections built by write_xrf_data                                        *)
(***************************************************************************)
\* section.normalize(archive, logger) of the framework: derives fields of
\* the section and leaves the quantities set by write_xrf_data alone
SectionNormalize(section) == [section EXCEPT !.normalized = TRUE]

XRFElementalCompositionSwapped(element, attributes) ==
    [element |-> element,
     mass_fraction |-> Get(attributes, "mass_fraction"),
     atomic_fraction |-> Get(attributes, "atomic_fraction"),
     line |-> Get(attributes, "line"),
     intensity_peak |-> Get(attributes, "intensity_peak"),
     intensity_background |-> Get(attributes, "intensity_background"),
     intensity_background_2 |-> Get(attributes, "intensity_background")]

XRFElementalComposition(element, attributes) ==
    [element |-> element,
     mass_fraction |-> Get(attributes, "mass_fraction"),
     atomic_fraction |-> Get(attributes, "atomic_fraction"),
     line |-> Get(attributes, "line"),
     intensity_peak |-> Get(attributes, "intensity_peak"),
     intensity_background |-> Get(attributes, "intensity_background"),
     intensity_background_2 |-> Get(attributes, "intensity_background_2")]

\* content.get('elements', {}).items()
ElementItems(content) ==
    IF "elements" \in DOMAIN content THEN content["elements"] ELSE <<>>

\* the loop over the elements of one layer
RECURSIVE ElementalCompositions(_, _)
ElementalCompositions(list_of_ElementalCompositions, items) ==
    IF items = <<>>
    THEN list_of_ElementalCompositions
    ELSE ElementalCompositions(
             Append(list_of_ElementalCompositions,
                    XRFElementalComposition(Head(items).k, Head(items).v)),
             Tail(items))

XRFLayer(layer, content) ==
    [name |-> layer,
     thickness |-> Get(content, "thickness"),
     elements |-> ElementalCompositions(<<>>, ElementItems(content))]

\* the loop over the layers of one measurement
RECURSIVE XRFLayers(_, _)
XRFLayers(list_of_XRFLayers, items) ==
    IF items = <<>>
    THEN list_of_XRFLayers
    ELSE XRFLayers(Append(list_of_XRFLayers, XRFLayer(Head(items).k, Head(items).v)),
                   Tail(items))

\* data.get('layers', []): the dict when present, else a list
LayersOrDefault(data) ==
    IF "layers" \in DOMAIN data
    THEN [kind |-> "dict", items |-> data["layers"]]
    ELSE [kind |-> "list", items |-> <<>>]

\* value.items() exists: a list has no such attribute
HasItems(value) == value.kind = "dict"

CompositeSystemReference(lab_id) == [lab_id |-> lab_id, normalized |-> FALSE]

XRFResult(name, date, layer) ==
    [name |-> name, date |-> date, layer |-> layer, normalized |-> FALSE]

XRFSettings == [xray_energy |-> <<>>, normalized |-> FALSE]

\* equality of two sample references: by identifier
SampleEq(a, b) == a.lab_id = b.lab_id

\* sample in list_of_samples
SampleIn(sample, list) == \E i \in 1..Len(list) : SampleEq(list[i], sample)

\* the sample list after one measurement
AppendSample(list, sample) ==
    IF ~SampleIn(sample, list) THEN Append(list, SectionNormalize(sample)) ELSE list

DerivedRecordNoSamples(lr, st, ls) ==
    [results |-> lr, xrf_settings |-> <<st>>, samples |-> <<>>]

\* ELNXRayFluorescence(results=..., xrf_settings=..., samples=...)
DerivedRecord(lr, st, ls) ==
    [results |-> lr, xrf_settings |-> <<st>>, samples |-> ls]

(***************************************************************************)
(* merge_sections of nomad_measurements.utils                              *)
(***************************************************************************)
MergeField(current, derived) == IF current # <<>> THEN current ELSE derived

MergeSections(section, update) ==
    [f \in DOMAIN section |-> MergeField(section[f], update[f])]

Overwrite(section, update) == update

\* what write_xrf_data leaves in self
WriteTarget(section, update) == MergeSections(section, update)

Self == [results |-> results, xrf_settings |-> xrf_settings, samples |-> samples]

(***************************************************************************)
(* The record before any normalize call, and edits made between calls      *)
(***************************************************************************)
EmptyRecord == [results |-> <<>>, xrf_settings |-> <<>>, samples |-> <<>>]

ManualResult == SectionNormalize(XRFResult(<<"manual">>, <<>>, <<>>))

ManualSample == SectionNormalize(CompositeSystemReference(<<"M1">>))

ManualSettings == [xray_energy |-> <<30>>, normalized |-> TRUE]

\* what a user has entered by hand in the editable sections
ManualRecords ==
    { EmptyRecord,
      [results |-> <<ManualResult>>, xrf_settings |-> <<>>, samples |-> <<>>],
      [results |-> <<>>, xrf_settings |-> <<ManualSettings>>,
       samples |-> <<ManualSample>>] }

Init ==
    /\ data_file = <<>>
    /\ results = <<>>
    /\ samples = <<>>
    /\ xrf_settings = <<>>
    /\ origin = <<>>
    /\ archive = [results |-> FALSE, properties |-> FALSE]
    /\ pc = "idle"
    /\ logger = FALSE
    /\ fileHeld = FALSE
    /\ xrf_dict = NoneValue
    /\ idx = 1
    /\ list_of_results = <<>>
    /\ list_of_samples = <<>>
    /\ exception = <<>>
    /\ raisedByReader = <<>>
    /\ log = <<>>
    /\ pre = EmptyRecord
    /\ outcome = "none"

record == <<results, samples, xrf_settings, origin>>

locals == <<xrf_dict, idx, list_of_results, list_of_samples>>

\* the user picks or clears the data file
SetDataFile(f) ==
    /\ pc = "idle"
    /\ data_file' = f
    /\ UNCHANGED <<record, archive, pc, logger, fileHeld, locals, exception,
                   raisedByReader, log, pre, outcome>>

\* the user fills or clears sections by hand
UserEdit(r) ==
    /\ pc = "idle"
    /\ results' = r.results
    /\ samples' = r.samples
    /\ xrf_settings' = r.xrf_settings
    /\ origin' = <<>>
    /\ UNCHANGED <<data_file, archive, pc, logger, fileHeld, locals, exception,
                   raisedByReader, log, pre, outcome>>

(***************************************************************************)
(* ELNXRayFluorescence.normalize                                           *)
(***************************************************************************)
\* get_read_function: the reader for the file name, <<>> for None
GetReadFunction(name) ==
    IF EndsWith(name, TxtSuffix) THEN <<"read_xrf_txt">> ELSE <<>>

TruthyNotNone(value) == value.kind # "none"

\* if xrf_dict:
Truthy(value) == value.kind = "dict" /\ Len(value.items) > 0

WarnUnguarded(lg) == TRUE

\* logger is not None
WarnGuard(lg) == lg

HeldAfterReadNoFinally(raised) == raised

\* the raw file is still held when the with block is left
HeldAfterRead(raised) == FALSE

\* logger.warn(msg): a None logger has no attribute warn
LoggerWarn(msg) ==
    IF logger
    THEN /\ log' = Append(log, msg)
         /\ exception' = exception
         /\ pc' = "super"
    ELSE /\ log' = log
         /\ exception' = <<"AttributeError">>
         /\ pc' = "raised"

WarnIfLogger(msg) ==
    IF WarnGuard(logger)
    THEN LoggerWarn(msg)
    ELSE /\ log' = log
         /\ exception' = exception
         /\ pc' = "super"

NormalizeBegin(lg) ==
    /\ pc = "idle"
    /\ pc' = "entered"
    /\ logger' = lg
    /\ pre' = Self
    /\ UNCHANGED <<data_file, record, archive, fileHeld, locals, exception,
                   raisedByReader, log, outcome>>

\* self.data_file is None
NoFile ==
    /\ pc = "entered"
    /\ data_file = <<>>
    /\ outcome' = "nofile"
    /\ pc' = "super"
    /\ UNCHANGED <<data_file, record, archive, logger, fileHeld, locals,
                   exception, raisedByReader, log, pre>>

\* read_function is None
NoReader ==
    /\ pc = "entered"
    /\ data_file # <<>>
    /\ GetReadFunction(data_file[1]) = <<>>
    /\ outcome' = "noreader"
    /\ WarnIfLogger("warn_noreader")
    /\ UNCHANGED <<data_file, record, archive, logger, fileHeld, locals,
                   raisedByReader, pre>>

\* with archive.m_context.raw_file(self.data_file) as file:
Acquire ==
    /\ pc = "entered"
    /\ data_file # <<>>
    /\ GetReadFunction(data_file[1]) # <<>>
    /\ fileHeld' = TRUE
    /\ log' = Append(log, "acquire")
    /\ pc' = "reading"
    /\ UNCHANGED <<data_file, record, archive, logger, locals, exception,
                   raisedByReader, pre, outcome>>

\* xrf_dict = read_function(file.name, logger) returns d; the with block exits
ReadReturns(d) ==
    /\ pc = "reading"
    /\ xrf_dict' = d
    /\ fileHeld' = HeldAfterRead(FALSE)
    /\ log' = log \o <<"read", "release">>
    /\ pc' = "read"
    /\ UNCHANGED <<data_file, record, archive, logger, idx, list_of_results,
                   list_of_samples, exception, raisedByReader, pre, outcome>>

\* read_function raises e; the with block exits and e leaves normalize
ReadRaises(e) ==
    /\ pc = "reading"
    /\ raisedByReader' = <<e>>
    /\ exception' = <<e>>
    /\ fileHeld' = HeldAfterRead(TRUE)
    /\ log' = log \o <<"read", "release">>
    /\ pc' = "raised"
    /\ UNCHANGED <<data_file, record, archive, logger, locals, pre, outcome>>

\* xrf_dict is falsy
NoData ==
    /\ pc = "read"
    /\ ~Truthy(xrf_dict)
    /\ outcome' = "nodata"
    /\ WarnIfLogger("warn_nodata")
    /\ UNCHANGED <<data_file, record, archive, logger, fileHeld, locals,
                   raisedByReader, pre>>

\* self.write_xrf_data(xrf_dict, archive, logger) is entered
BuildStart ==
    /\ pc = "read"
    /\ Truthy(xrf_dict)
    /\ idx' = 1
    /\ list_of_results' = <<>>
    /\ list_of_samples' = <<>>
    /\ log' = Append(log, "build")
    /\ pc' = "build"
    /\ UNCHANGED <<data_file, record, archive, logger, fileHeld, xrf_dict,
                   exception, raisedByReader, pre, outcome>>

(***************************************************************************)
(* ELNXRayFluorescence.write_xrf_data                                      *)
(***************************************************************************)
\* one iteration of the loop over xrf_dict.values()
BuildEntry ==
    /\ pc = "build"
    /\ idx <= Len(xrf_dict.items)
    /\ LET data == xrf_dict.items[idx]
           layers == LayersOrDefault(data)
       IN /\ HasItems(layers)
          /\ list_of_samples' =
                 AppendSample(list_of_samples,
                              CompositeSystemReference(Get(data, "sample_name")))
          /\ list_of_results' =
                 Append(list_of_results,
                        SectionNormalize(XRFResult(Get(data, "application"),
                                                   Get(data, "date"),
                                                   XRFLayers(<<>>, layers.items))))
    /\ idx' = idx + 1
    /\ UNCHANGED <<data_file, record, archive, pc, logger, fileHeld, xrf_dict,
                   exception, raisedByReader, log, pre, outcome>>

\* data.get('layers', []).items() on an entry without 'layers'
BuildRaises ==
    /\ pc = "build"
    /\ idx <= Len(xrf_dict.items)
    /\ ~HasItems(LayersOrDefault(xrf_dict.items[idx]))
    /\ exception' = <<"AttributeError">>
    /\ pc' = "raised"
    /\ UNCHANGED <<data_file, record, archive, logger, fileHeld, locals,
                   raisedByReader, log, pre, outcome>>

\* the loop is over: build the settings and the derived record, merge it
MergeStep ==
    /\ pc = "build"
    /\ idx > Len(xrf_dict.items)
    /\ LET xrf == DerivedRecord(list_of_results, SectionNormalize(XRFSettings),
                                list_of_samples)
           merged == WriteTarget(Self, xrf)
       IN /\ results' = merged.results
          /\ samples' = merged.samples
          /\ xrf_settings' = merged.xrf_settings
          /\ origin' = IF results = <<>> /\ merged.results # <<>>
                       THEN data_file ELSE origin
    /\ log' = Append(log, "merge")
    /\ outcome' = "parsed"
    /\ pc' = "super"
    /\ UNCHANGED <<data_file, archive, logger, fileHeld, locals, exception,
                   raisedByReader, pre>>

(***************************************************************************)
(* XRayFluorescence.normalize                                              *)
(***************************************************************************)
\* super().normalize(archive, logger)
SuperNormalize ==
    /\ pc = "super"
    /\ archive' = [results |-> TRUE, properties |-> TRUE]
    /\ log' = Append(log, "baseline")
    /\ pc' = "done"
    /\ UNCHANGED <<data_file, record, logger, fileHeld, locals, exception,
                   raisedByReader, pre, outcome>>

\* normalize returns, or the exception reaches its caller
Return ==
    /\ pc \in {"done", "raised"}
    /\ pc' = "idle"
    /\ logger' = FALSE
    /\ xrf_dict' = NoneValue
    /\ idx' = 1
    /\ list_of_results' = <<>>
    /\ list_of_samples' = <<>>
    /\ exception' = <<>>
    /\ raisedByReader' = <<>>
    /\ log' = <<>>
    /\ pre' = EmptyRecord
    /\ outcome' = "none"
    /\ UNCHANGED <<data_file, record, archive, fileHeld>>

Next ==
    \/ \E f \in {<<>>} \cup {<<n>> : n \in FileNames} : SetDataFile(f)
    \/ \E r \in ManualRecords : UserEdit(r)
    \/ \E lg \in BOOLEAN : NormalizeBegin(lg)
    \/ NoFile
    \/ NoReader
    \/ Acquire
    \/ \E d \in ReaderOutputs : ReadReturns(d)
    \/ \E e \in ReaderErrors : ReadRaises(e)
    \/ NoData
    \/ BuildStart
    \/ BuildEntry
    \/ BuildRaises
    \/ MergeStep
    \/ SuperNormalize
    \/ Return

Spec == Init /\ [][Next]_vars

(***************************************************************************)
(* write_xrf_data on every raw mapping: a first normalize call on a fresh  *)
(* record, at the point where the read function has returned the mapping.  *)
(***************************************************************************)
InitBuild ==
    /\ data_file = <<RunTxt>>
    /\ results = <<>>
    /\ samples = <<>>
    /\ xrf_settings = <<>>
    /\ origin = <<>>
    /\ archive = [results |-> FALSE, properties |-> FALSE]
    /\ pc = "read"
    /\ logger = TRUE
    /\ fileHeld = FALSE
    /\ xrf_dict \in RawMappings
    /\ idx = 1
    /\ list_of_results = <<>>
    /\ list_of_samples = <<>>
    /\ exception = <<>>
    /\ raisedByReader = <<>>
    /\ log = <<"acquire", "read", "release">>
    /\ pre = EmptyRecord
    /\ outcome = "none"

NextBuild ==
    \/ BuildStart
    \/ BuildEntry
    \/ BuildRaises
    \/ MergeStep
    \/ SuperNormalize

SpecBuild == InitBuild /\ [][NextBuild]_vars

(***************************************************************************)
(* Properties                                                              *)
(***************************************************************************)
Logged(e) == e \in Range(log)

IsWarning(e) == e \in {"warn_noreader", "warn_nodata"}

Warnings == SelectSeq(log, IsWarning)

\* write_xrf_data was entered and is no longer running
BuilderEnded == Logged("build") /\ pc # "build"

\* write_xrf_data was entered and has returned
BuilderReturned == Logged("merge")

Entries == xrf_dict.items

HeaderMatches(result, entry) ==
    /\ result.name = (IF "application" \in DOMAIN entry
                      THEN <<entry["application"]>> ELSE <<>>)
    /\ result.date = (IF "date" \in DOMAIN entry THEN <<entry["date"]>> ELSE <<>>)

\* C1: once write_xrf_data has ended on a raw mapping with N entries it has
\* built exactly N Results, the i-th one named and dated by the i-th entry.
C1_ExactlyNResultsInOrder ==
    BuilderEnded =>
        /\ Len(list_of_results) = Len(Entries)
        /\ \A i \in 1..Len(list_of_results) :
               HeaderMatches(list_of_results[i], Entries[i])

\* The same statement for the calls of write_xrf_data that return.
ResultsInOrderOnReturn ==
    BuilderReturned =>
        /\ Len(list_of_results) = Len(Entries)
        /\ \A i \in 1..Len(list_of_results) :
               HeaderMatches(list_of_results[i], Entries[i])

SampleNames == {Entries[i]["sample_name"] :
                   i \in {j \in 1..Len(Entries) : "sample_name" \in DOMAIN Entries[j]}}

NonEmptySampleNames == SampleNames \ {""}

FirstOccurrence(name) ==
    CHOOSE i \in 1..Len(Entries) :
        /\ Get(Entries[i], "sample_name") = <<name>>
        /\ \A j \in 1..(i - 1) : Get(Entries[j], "sample_name") # <<name>>

\* C2: when write_xrf_data has returned, the sample-reference list holds no
\* two references with the same identifier, holds one reference per distinct
\* non-empty sample_name of the input and nothing else, in first-occurrence
\* order.
C2_OneReferencePerNonEmptyName ==
    BuilderReturned =>
        /\ \A i, j \in 1..Len(list_of_samples) :
               list_of_samples[i].lab_id = list_of_samples[j].lab_id => i = j
        /\ Len(list_of_samples) = Cardinality(NonEmptySampleNames)
        /\ {list_of_samples[i].lab_id : i \in 1..Len(list_of_samples)}
               = {<<n>> : n \in NonEmptySampleNames}
        /\ \A i, j \in 1..Len(list_of_samples) :
               (/\ i < j
                /\ list_of_samples[i].lab_id # <<>>
                /\ list_of_samples[j].lab_id # <<>>)
                   => FirstOccurrence(list_of_samples[i].lab_id[1])
                          < FirstOccurrence(list_of_samples[j].lab_id[1])

\* The references are pairwise distinct by identifier, one per distinct value
\* of data.get('sample_name'), the missing name (None) being one such value.
OneReferencePerNameOrNone ==
    BuilderReturned =>
        /\ \A i, j \in 1..Len(list_of_samples) :
               list_of_samples[i].lab_id = list_of_samples[j].lab_id => i = j
        /\ {list_of_samples[i].lab_id : i \in 1..Len(list_of_samples)}
               = {Get(Entries[i], "sample_name") : i \in 1..Len(Entries)}

FreshSettings == [xray_energy |-> <<>>, normalized |-> TRUE]

Derived ==
    [results |-> list_of_results, xrf_settings |-> <<FreshSettings>>,
     samples |-> list_of_samples]

C5_BaselineOnceAfterOutcome ==
    (pc \in {"done", "raised"} /\ raisedByReader = <<>>) =>
        /\ Count(log, "baseline") = 1
        /\ log[Len(log)] = "baseline"

\* The same statement for the calls that return: each ends in one of the four
\* outcomes with baseline normalization run once, as the last step.
BaselineOnceOnReturn ==
    pc = "done" =>
        /\ outcome \in {"nofile", "noreader", "nodata", "parsed"}
        /\ Count(log, "baseline") = 1
        /\ log[Len(log)] = "baseline"

\* C6: write_xrf_data raises nothing, whatever fields an entry lacks, and the
\* Results built carry an unset name or date where the entry has none.
C6_NoErrorForMissingField ==
    Logged("build") =>
        /\ exception = <<>>
        /\ \A i \in 1..Len(list_of_results) :
               HeaderMatches(list_of_results[i], Entries[i])

NotTxt == {RunCsv, Txt}

\* C7: before baseline normalization of a call with no data file, with a data
\* file not ending in '.txt' or with a falsy reader result, the Entity Builder
\* and the merge have not run and Results, SampleReferences and Settings are
\* as at the start of the call; in the first two cases the raw file was not
\* acquired and the reader not invoked.
C7_UnparsedLeavesRecordAlone ==
    pc = "super" =>
        /\ (data_file = <<>> \/ data_file \in {<<n>> : n \in NotTxt}) =>
               /\ Self = pre
               /\ ~Logged("acquire") /\ ~Logged("read")
               /\ ~Logged("build") /\ ~Logged("merge")
        /\ (Logged("read") /\ xrf_dict \in {NoneValue, Dict(<<>>)}) =>
               /\ Self = pre
               /\ ~Logged("build") /\ ~Logged("merge")

C7_Witness ==
    /\ pc = "super"
    /\ Logged("read")
    /\ xrf_dict = Dict(<<>>)
    /\ results # <<>>
    /\ xrf_settings = <<>>
    /\ Self = pre

\* C8: a call warns once, 'no compatible reader', when a data file is set and
\* no reader is found, once, 'no data found', when the reader returns a falsy
\* result, and not at all otherwise; without a logger these outcomes are
\* reached with no warning and no exception.
C8_WarningsOnlyOnRecoverableFailures ==
    /\ outcome \in {"nofile", "noreader", "nodata", "parsed"} =>
           /\ exception = <<>>
           /\ pc \in {"super", "done"}
    /\ (outcome = "noreader" /\ logger) => Warnings = <<"warn_noreader">>
    /\ (outcome = "nodata" /\ logger) => Warnings = <<"warn_nodata">>
    /\ (outcome \notin {"noreader", "nodata"} \/ ~logger) => Warnings = <<>>

C8_Witness ==
    /\ pc = "done"
    /\ logger
    /\ data_file = <<RunCsv>>
    /\ Warnings = <<"warn_noreader">>

\* C9: the raw file is held only while the read function runs; it is released
\* when the Entity Builder starts and when a call ends; when the read function
\* raises, its exception leaves normalize unmodified and neither the Entity
\* Builder, the merge nor baseline normalization runs.
C9_RawFileScopedToReader ==
    /\ fileHeld => pc = "reading"
    /\ pc # "reading" => Count(log, "acquire") = Count(log, "release")
    /\ raisedByReader # <<>> =>
           /\ pc = "raised"
           /\ exception = raisedByReader
           /\ ~Logged("build") /\ ~Logged("merge") /\ ~Logged("baseline")
           /\ Self = pre

C9_Witness ==
    /\ pc = "raised"
    /\ raisedByReader = <<"ValueError">>
    /\ Logged("acquire")
    /\ ~fileHeld

AttributeNames ==
    {"mass_fraction", "atomic_fraction", "line", "intensity_peak",
     "intensity_background", "intensity_background_2"}

ElementMatches(composition, item) ==
    /\ composition.element = item.k
    /\ \A a \in AttributeNames :
           composition[a] = (IF a \in DOMAIN item.v THEN <<item.v[a]>> ELSE <<>>)

LayerMatches(built, item) ==
    LET elems == IF "elements" \in DOMAIN item.v THEN item.v["elements"] ELSE <<>>
    IN /\ built.name = item.k
       /\ built.thickness = (IF "thickness" \in DOMAIN item.v
                             THEN <<item.v["thickness"]>> ELSE <<>>)
       /\ Len(built.elements) = Len(elems)
       /\ \A e \in 1..Len(elems) : ElementMatches(built.elements[e], elems[e])

\* C10: the Result built from an entry with layers L1..Lk holds k Layers in
\* input order, each named by its key with its thickness, each holding its
\* elements in input order with the six attributes equal to the input values.
C10_LayersRoundTrip ==
    \A i \in 1..Len(list_of_results) :
        "layers" \in DOMAIN Entries[i] =>
            LET layers == Entries[i]["layers"]
                built == list_of_results[i].layer
            IN /\ Len(built) = Len(layers)
               /\ \A j \in 1..Len(layers) : LayerMatches(built[j], layers[j])

C10_Witness ==
    /\ pc = "done"
    /\ Len(results) = 1
    /\ Len(results[1].layer) = 2
    /\ results[1].layer[1].name = "L2"
    /\ Len(results[1].layer[1].elements) = 2
    /\ results[1].layer[1].elements[1].element = "Cu"
    /\ results[1].layer[1].elements[1].intensity_background_2 = <<12>>
    /\ results[1].layer[2].thickness = <<>>

====
